---- MODULE Spec2Model ----
(***************************************************************************)
(* Model of the transaction ledger, nonce resolver, mutex registry and     *)
(* transaction submitter of src/src/interface.js (the `transactions`       *)
(* object), as driven by a bounded number of concurrent submitTx calls.    *)
(*                                                                         *)
(* JavaScript runs one continuation at a time, so every action below is    *)
(* the code between two suspension points (await) of one call.  An intent  *)
(* (txMeta) is one object shared by the caller and the ledger: the ledger  *)
(* `tx` holds references to intents, and the intents' fields live in       *)
(* `txMeta`.                                                               *)
(***************************************************************************)
EXTENDS Integers, Sequences, FiniteSets, TLC

\* ---------------------------------------------------------------- bounds
\* Number of submitTx calls made in one behaviour (each call owns one
\* intent); they are numbered in the order they are made.
NProc == 2
\* Largest transaction count the node reports for an account.
MaxNetNonce == 1
\* Largest gasUsed a receipt reports.
MaxGas == 1
\* The in-flight threshold of submitTx (`awaitLimit`, 100 in the source,
\* line 231), scaled to the size of the model: the code compares the
\* number of submitted entries with it and nothing else.
awaitLimit == 1
\* Number.MAX_SAFE_INTEGER (2^53 - 1 in the source), the modulus of the id
\* counter, scaled to the size of the model.
MAX_SAFE_INTEGER == 7

Procs == 1..NProc
\* Earlier calls, whose sends are still outstanding when a behaviour starts:
\* as many as the threshold, so that the calls of the behaviour meet it.
Early == (NProc + 1)..(NProc + awaitLimit)
Calls == Procs \cup Early
Accounts == {"A", "B"}
Global == "global"
LockIds == Accounts \cup {Global}

\* absent values (JavaScript undefined)
NoId == 0 - 1
NoNonce == 0 - 1
\* Math.max over no numbers is -Infinity, over an undefined is NaN
NegInfinity == 0 - 2
NaN == 0 - 3

TxTypes == {"send", "call", "undefined"}
Statuses == {"pending", "submitted", "failed", "confirmed"}

\* a mutex of the registry: who holds it and through which acquisition
Free == [by |-> 0, as |-> "free"]
External == [by |-> 0, as |-> "ext"]
Held(p, kind) == [by |-> p, as |-> kind]

VARIABLES
    tx,               \* transactions.tx: the ledger, a sequence of intents
    txMeta,           \* the intent objects, by the call that owns them
    totalGasUsed,     \* transactions.totalGasUsed
    totalEthSpent,    \* transactions.totalEthSpent (in wei)
    idCounter,        \* transactions._idCounter
    lockMap,          \* transactions._lockMap: state of each mutex
    wallet,           \* obj.wallet of the contract handle
    resolved,         \* the result of the getNonce call under test
    objGasUsed,       \* obj.gasUsed of the contract handle
    objTotalGasUsed,  \* obj.totalGasUsed of the contract handle
    netNonce,         \* the node: transaction count per account
    pc,               \* where each submitTx call is suspended
    lock,             \* the `lock` argument of each call
    nonceAddr,        \* `address` of the call's getNonce
    nonce,            \* the call's nextNonce, kept while it sleeps
    nonceReleases,    \* how often the call invoked releaseNonceLock
    ret,              \* how the call ended: returned pair or thrown error
    member,           \* the member of the contract handle each call invoked
    cached,           \* the members proxyHandler.get has put on the handle
    callback,         \* whether the call was given a trailing callback
    opResult          \* how the ledger operation under test ended

vars == <<tx, txMeta, totalGasUsed, totalEthSpent, idCounter, lockMap, wallet, resolved,
          objGasUsed, objTotalGasUsed, netNonce, pc, lock, nonceAddr, nonce,
          nonceReleases, ret, member, cached, callback, opResult>>
\* the part of the state only the proxy and the ledger operations touch
proxyVars == <<member, cached, callback, opResult>>

\* Largest gas price an intent's options carry.
MaxGasPrice == 1
\* Size of the ledgers the nonce resolver and the ledger operations are
\* tried on, and the largest nonce in them.
NEntries == 2
MaxNonceIn == 4

NoMeta == [id |-> NoId, address |-> "A", txType |-> "undefined", status |-> "none",
           nonce |-> NoNonce, gasUsed |-> 0, gasPrice |-> 0]
NoNonceResult == [address |-> "none", nextNonce |-> NoNonce, localNonceResult |-> NoNonce,
                  highestLocallyConfirmed |-> NoNonce, highestSuggested |-> NoNonce,
                  nextNetworkNonce |-> NoNonce]
\* a value of the node: undefined, null, or a receipt/return value
Undefined == [kind |-> "undefined", val |-> 0]
Null == [kind |-> "null", val |-> 0]
Value(v) == [kind |-> "value", val |-> v]
\* how a ledger operation ended: returned (with a value) or threw
NoOp == [op |-> "none", how |-> "none", val |-> NoId]
\* how a call ended (how, err, result) and what the node did with its send
NoRet == [how |-> "running", err |-> "undefined", result |-> Undefined, dispatch |-> "none"]

Max(a, b) == IF a >= b THEN a ELSE b

\* ------------------------------------------------------------ the ledger
\* The fields of the intent at ledger position i.
Entry(i) == txMeta[tx[i]]

\* getTxsByMetaData that does not compare the value.
getTxsByStatusUnfiltered(meta, txList, value) ==
    SelectSeq(txList, LAMBDA r : meta[r].status # "none")

\* getTxsByMetaData for the keys the code filters on.
getTxsByStatus(meta, txList, value) ==
    SelectSeq(txList, LAMBDA r : meta[r].status = value)

\* getTxsByMetaData that returns the matching entries last first.
getTxsByAddressReversed(meta, txList, value) ==
    LET s == SelectSeq(txList, LAMBDA r : meta[r].address = value)
    IN [i \in 1..Len(s) |-> s[Len(s) + 1 - i]]

getTxsByAddress(meta, txList, value) ==
    SelectSeq(txList, LAMBDA r : meta[r].address = value)

\* getFilteredTxList({status}) and getFilteredTxList({status, address})
getFilteredTxList(meta, list, status) == getTxsByStatus(meta, list, status)
getFilteredTxListAt(meta, list, status, address) ==
    getTxsByAddress(meta, getTxsByStatus(meta, list, status), address)

getSubmittedTransactions(meta, list) == getFilteredTxList(meta, list, "submitted")
getPendingTransactions(meta, list) == getFilteredTxList(meta, list, "pending")
getFailedTransactions(meta, list) == getFilteredTxList(meta, list, "failed")
getConfirmedTransactions(meta, list) == getFilteredTxList(meta, list, "confirmed")
getSubmittedTransactionsAt(meta, list, a) == getFilteredTxListAt(meta, list, "submitted", a)
getConfirmedTransactionsAt(meta, list, a) == getFilteredTxListAt(meta, list, "confirmed", a)

getTxStat ==
    [submitted |-> Len(getSubmittedTransactions(txMeta, tx)),
     pending   |-> Len(getPendingTransactions(txMeta, tx)),
     failed    |-> Len(getFailedTransactions(txMeta, tx)),
     confirmed |-> Len(getConfirmedTransactions(txMeta, tx)),
     totalGasUsed |-> totalGasUsed,
     totalEthSpent |-> totalEthSpent]

\* _createRandomId: the id handed out and the counter afterwards.
createRandomId(counter) == counter % MAX_SAFE_INTEGER
createRandomIdCounter(counter) == (counter % MAX_SAFE_INTEGER) + 1

\* findIndex of updateTx: first position whose entry has the id, 0 if none.
findIndex(meta, list, id) ==
    IF \E i \in 1..Len(list) : meta[list[i]].id = id
    THEN CHOOSE i \in 1..Len(list) :
            /\ meta[list[i]].id = id
            /\ \A j \in 1..(i - 1) : meta[list[j]].id # id
    ELSE 0

\* updateTx that takes the entry out and puts the intent at the end.
updateTxMoveLast(meta, list, p) ==
    LET index == findIndex(meta, list, meta[p].id)
    IN IF index = 0 THEN list
       ELSE Append(SelectSeq(list, LAMBDA r : meta[r].id # meta[p].id), p)

\* updateTx(txMeta) for the intent of call p: the ledger afterwards.  With
\* no entry of that id the assignment tx[-1] = txMeta adds no element.
updateTx(meta, list, p) ==
    LET index == findIndex(meta, list, meta[p].id)
    IN IF index = 0 THEN list ELSE [list EXCEPT ![index] = p]

\* --------------------------------------------------------- nonce resolver
NonceSeq(meta, txList) == [i \in 1..Len(txList) |-> meta[txList[i]].nonce]
Includes(s, v) == \E i \in 1..Len(s) : s[i] = v

\* _getHighestNonce: Math.max.apply(null, nonces)
getHighestNonce(meta, txList) ==
    LET nonces == NonceSeq(meta, txList)
    IN IF Len(nonces) = 0 THEN NegInfinity
       ELSE IF Includes(nonces, NoNonce) THEN NaN
       ELSE CHOOSE m \in {nonces[i] : i \in 1..Len(nonces)} :
               \A i \in 1..Len(nonces) : nonces[i] <= m

IsInteger(v) == v >= 0

\* _getHighestLocallyConfirmed without the step past the confirmed nonce.
getHighestLocallyConfirmedSame(meta, list, address) ==
    LET highest == getHighestNonce(meta, getConfirmedTransactionsAt(meta, list, address))
    IN IF IsInteger(highest) THEN highest ELSE 0

getHighestLocallyConfirmed(meta, list, address) ==
    LET highest == getHighestNonce(meta, getConfirmedTransactionsAt(meta, list, address))
    IN IF IsInteger(highest) THEN highest + 1 ELSE 0

RECURSIVE ContinuousFrom(_, _)
ContinuousFrom(nonces, highest) ==
    IF Includes(nonces, highest) THEN ContinuousFrom(nonces, highest + 1) ELSE highest

\* _getHighestContinuousFrom that scans from nonce 0.
getHighestContinuousFromZero(meta, txList, startPoint) ==
    ContinuousFrom(NonceSeq(meta, txList), 0)

getHighestContinuousFrom(meta, txList, startPoint) ==
    ContinuousFrom(NonceSeq(meta, txList), startPoint)

\* The body of getNonce after the two node queries answered.
getNonceResult(meta, list, address, nextNetworkNonce) ==
    LET highestLocallyConfirmed == getHighestLocallyConfirmed(meta, list, address)
        highestSuggested == Max(nextNetworkNonce, highestLocallyConfirmed)
        pendingTxs == getSubmittedTransactionsAt(meta, list, address)
        localNonceResult == getHighestContinuousFrom(meta, pendingTxs, highestSuggested)
    IN [nextNonce |-> Max(nextNetworkNonce, localNonceResult),
        localNonceResult |-> localNonceResult,
        highestLocallyConfirmed |-> highestLocallyConfirmed,
        highestSuggested |-> highestSuggested,
        nextNetworkNonce |-> nextNetworkNonce]

\* --------------------------------------------------------- mutex registry
\* A mutex that can be acquired while it is held.
CanAcquireAlways(locks, lockId) == TRUE

\* Mutex.acquire resolves only while the mutex is free (_lookupMutex makes
\* an absent mutex on first use, free).
CanAcquire(locks, lockId) == locks[lockId] = Free

\* An acquisition that leaves the mutex free.
AcquireNothing(locks, lockId, p, kind) == locks

Acquire(locks, lockId, p, kind) == [locks EXCEPT ![lockId] = Held(p, kind)]
\* A release function that frees nothing.
ReleaseNothing(locks, lockId, p, kind) == locks

\* The release function of one acquisition: it frees the mutex the first
\* time it is invoked and does nothing afterwards.
Release(locks, lockId, p, kind) ==
    IF locks[lockId] = Held(p, kind) THEN [locks EXCEPT ![lockId] = Free] ELSE locks

\* ------------------------------------------------------------- submitTx
\* addTx that keeps the status the intent came with.
addTxMetaNoDefault(m, counter) ==
    [m EXCEPT !.id = IF m.id = NoId \/ m.id = 0 THEN createRandomId(counter) ELSE m.id]

\* addTx(args): the intent afterwards (id, status), the ledger, the counter.
addTxMeta(m, counter) ==
    [m EXCEPT !.id = IF m.id = NoId \/ m.id = 0 THEN createRandomId(counter) ELSE m.id,
              !.status = IF m.status = "none" THEN "pending" ELSE m.status]
addTxCounter(m, counter) ==
    IF m.id = NoId \/ m.id = 0 THEN createRandomIdCounter(counter) ELSE counter

\* submitTx without the early return for call intents.
FirstAwaitGate(txType) == "gate"

\* Line 217: a call intent is answered by the node's call, any other
\* intent goes through the gate, the ledger and the nonce resolver.
FirstAwait(txType) == IF txType = "call" THEN "call" ELSE "gate"

\* submitTx that ignores the error, and one that puts a failed intent
\* back to 'pending'.
FinalStatusConfirmed(err) == "confirmed"
FinalStatusRetry(err) == IF err = "undefined" THEN "confirmed" ELSE "pending"

\* Lines 282-289: the final status of the intent.
FinalStatus(err) == IF err = "undefined" THEN "confirmed" ELSE "failed"

\* Whether submitTx call p was made directly, not through a member of the
\* contract handle.
Direct(p) == member[p] = "none"

\* submitTx(obj, txMeta, lock) up to its first suspension: a call intent
\* awaits the node's call, any other intent awaits the global gate.
SubmitTx(p, address, txType, lockArg, id, gasPrice) ==
    /\ pc[p] = "idle"
    /\ \A q \in Procs : q < p => pc[q] # "idle"
    /\ txMeta' = [txMeta EXCEPT ![p] = [id |-> id, address |-> address, txType |-> txType,
                                        status |-> "none", nonce |-> NoNonce, gasUsed |-> 0,
                                        gasPrice |-> gasPrice]]
    /\ lock' = [lock EXCEPT ![p] = lockArg]
    /\ pc' = [pc EXCEPT ![p] = FirstAwait(txType)]
    /\ UNCHANGED <<tx, totalGasUsed, totalEthSpent, idCounter, lockMap, wallet, resolved, proxyVars, objGasUsed,
                   objTotalGasUsed, netNonce, nonceAddr, nonce, nonceReleases, ret>>

\* The node answers a call intent: _to turns the outcome into a pair.
CallReturn(p, ok, v) ==
    /\ pc[p] = "call"
    /\ ret' = [ret EXCEPT ![p] =
                 IF ok THEN [how |-> "returned", err |-> "null", result |-> Value(v),
                             dispatch |-> "none"]
                       ELSE [how |-> "returned", err |-> "callError", result |-> Null,
                             dispatch |-> "none"]]
    /\ pc' = [pc EXCEPT ![p] = "done"]
    /\ UNCHANGED <<tx, txMeta, totalGasUsed, totalEthSpent, idCounter, lockMap, wallet, resolved, proxyVars,
                   objGasUsed, objTotalGasUsed, netNonce, lock, nonceAddr, nonce,
                   nonceReleases>>

\* _globalLockFree: the global mutex is acquired and released at once; the
\* call then awaits the per-account lock (lock = true) or goes on to addTx.
\* The mutex serves its waiters in the order they asked: submitTx calls
\* made directly ask in the order they are made (calls made through a
\* member ask after getTxMeta, in any order).
GlobalLockFree(p) ==
    /\ pc[p] = "gate"
    /\ \A q \in Procs : (q < p /\ Direct(p) /\ Direct(q)) => pc[q] # "gate"
    /\ CanAcquire(lockMap, Global)
    /\ pc' = [pc EXCEPT ![p] = IF lock[p] THEN "txlock" ELSE "add"]
    /\ UNCHANGED <<tx, txMeta, totalGasUsed, totalEthSpent, idCounter, lockMap, wallet, resolved, proxyVars,
                   objGasUsed, objTotalGasUsed, netNonce, lock, nonceAddr, nonce,
                   nonceReleases, ret>>

\* txMeta.id = this.addTx(txMeta), then getNonce up to its _getLock:
\* getNonce reads obj.wallet here.
Register(p) ==
    /\ txMeta' = [txMeta EXCEPT ![p] = addTxMeta(txMeta[p], idCounter)]
    /\ idCounter' = addTxCounter(txMeta[p], idCounter)
    /\ tx' = Append(tx, p)
    /\ nonceAddr' = [nonceAddr EXCEPT ![p] = wallet]
    /\ pc' = [pc EXCEPT ![p] = "noncelock"]

\* lock = false: the call resumes after the gate, in the order the calls
\* passed it.
AddTx(p) ==
    /\ pc[p] = "add"
    /\ \A q \in Procs : (q < p /\ Direct(p) /\ Direct(q)) => pc[q] # "add"
    /\ Register(p)
    /\ UNCHANGED <<totalGasUsed, totalEthSpent, lockMap, wallet, resolved, proxyVars, objGasUsed,
                   objTotalGasUsed, netNonce, lock, nonce, nonceReleases, ret>>

\* lock = true: releaseTxLock = await this._getLock(txMeta.address).  The
\* mutex answers in a later turn of the event loop, after the calls that
\* left the gate before this one and go on to addTx at once, and after
\* an earlier call whose mutex is free.
GetTxLock(p) ==
    /\ pc[p] = "txlock"
    /\ \A q \in Procs :
          (q < p /\ Direct(p) /\ Direct(q))
          => /\ pc[q] # "add"
             /\ pc[q] = "txlock" => ~CanAcquire(lockMap, txMeta[q].address)
    /\ CanAcquire(lockMap, txMeta[p].address)
    /\ lockMap' = Acquire(lockMap, txMeta[p].address, p, "tx")
    /\ Register(p)
    /\ UNCHANGED <<totalGasUsed, totalEthSpent, wallet, resolved, proxyVars, objGasUsed,
                   objTotalGasUsed, netNonce, lock, nonce, nonceReleases, ret>>

\* getNonce: releaseNonceLock = await this._getLock(address).
GetNonceLock(p) ==
    /\ pc[p] = "noncelock"
    /\ CanAcquire(lockMap, nonceAddr[p])
    /\ lockMap' = Acquire(lockMap, nonceAddr[p], p, "nonce")
    /\ pc' = [pc EXCEPT ![p] = "query"]
    /\ UNCHANGED <<tx, txMeta, totalGasUsed, totalEthSpent, idCounter, wallet, resolved, proxyVars, objGasUsed,
                   objTotalGasUsed, netNonce, lock, nonceAddr, nonce, nonceReleases, ret>>

\* The backpressure test of submitTx: whether the call sleeps.
Sleeps(txType, awaiting) ==
    /\ txType = "send" /\ awaiting >= awaitLimit
    /\ awaiting > awaitLimit

\* obj.gasUsed that is 0 whatever the dispatch answered.
DispatchGasUsedNone(result) == 0

\* obj.gasUsed = result ? result.gasUsed || 0 : 0 (line 270).
DispatchGasUsed(result) == IF result.kind = "value" THEN result.val ELSE 0

\* Lines 269-302: the bookkeeping after the dispatch (or after the
\* unsupported-method error), from the intermediate values meta, list,
\* locks, releases.  threw: updateStat throws, which it does when the gas
\* price of the intent's options is no integer (bn rejects it); nothing
\* reads that price earlier, so the model decides it here.
Finish(p, meta, list, locks, releases, err, result, threw) ==
    LET gasUsed == DispatchGasUsed(result)
        err2 == IF threw THEN "bookkeeping" ELSE err
        locks2 == IF threw
                  THEN Release(Release(locks, meta[p].address, p, "tx"),
                               nonceAddr[p], p, "nonce")
                  ELSE locks
        meta2 == [meta EXCEPT ![p].status = FinalStatus(err2),
                              ![p].gasUsed = gasUsed]
    IN /\ objGasUsed' = gasUsed
       /\ objTotalGasUsed' = objTotalGasUsed + gasUsed
       /\ totalGasUsed' = IF threw THEN totalGasUsed ELSE totalGasUsed + gasUsed
       /\ totalEthSpent' = IF threw THEN totalEthSpent
                           ELSE totalEthSpent + gasUsed * meta[p].gasPrice
       /\ nonceReleases' = IF threw THEN [releases EXCEPT ![p] = @ + 1] ELSE releases
       /\ txMeta' = meta2
       /\ tx' = updateTx(meta2, list, p)
       /\ lockMap' = Release(locks2, meta[p].address, p, "tx")
       /\ ret' = [ret EXCEPT ![p] =
                    [how |-> "returned", err |-> err2, result |-> result,
                     dispatch |-> IF err = "sendError" THEN "threw"
                                  ELSE IF result.kind = "value" THEN "resolved" ELSE "none"]]
       /\ nonceAddr' = [nonceAddr EXCEPT ![p] = "A"]
       /\ pc' = [pc EXCEPT ![p] = "done"]

\* A try block that releases the nonce lock and dispatches before the
\* ledger records the nonce.
TryBlockEarly(p, nextNonce, threw) ==
    IF txMeta[p].txType = "send"
    THEN /\ lockMap' = Release(lockMap, nonceAddr[p], p, "nonce")
         /\ nonceReleases' = [nonceReleases EXCEPT ![p] = @ + 1]
         /\ pc' = [pc EXCEPT ![p] = "send"]
         /\ UNCHANGED <<tx, txMeta, totalGasUsed, totalEthSpent, objGasUsed,
                        objTotalGasUsed, ret, nonceAddr>>
    ELSE Finish(p, txMeta, tx, lockMap, nonceReleases, "unsupported", Undefined, threw)

\* The try block of submitTx (line 242) up to the next suspension: a send
\* intent is marked submitted, the nonce lock released and the send
\* dispatched; any other intent is an unsupported method.
TryBlock(p, nextNonce, threw) ==
    IF txMeta[p].txType = "send"
    THEN LET meta == [txMeta EXCEPT ![p].nonce = nextNonce, ![p].status = "submitted"]
         IN /\ txMeta' = meta
            /\ tx' = updateTx(meta, tx, p)
            /\ lockMap' = Release(lockMap, nonceAddr[p], p, "nonce")
            /\ nonceReleases' = [nonceReleases EXCEPT ![p] = @ + 1]
            /\ pc' = [pc EXCEPT ![p] = "send"]
            /\ UNCHANGED <<totalGasUsed, totalEthSpent, objGasUsed, objTotalGasUsed, ret,
                           nonceAddr>>
    ELSE Finish(p, txMeta, tx, lockMap, nonceReleases, "unsupported", Undefined, threw)

\* getNonce: a node query (getBlock, getTransactionCount) fails: the nonce
\* lock is released and the error thrown, which submitTx does not catch.
NodeQueryFails(p) ==
    /\ pc[p] = "query"
    /\ lockMap' = Release(lockMap, nonceAddr[p], p, "nonce")
    /\ nonceReleases' = [nonceReleases EXCEPT ![p] = @ + 1]
    /\ ret' = [ret EXCEPT ![p] = [how |-> "thrown", err |-> "queryError",
                                  result |-> Undefined, dispatch |-> "none"]]
    /\ pc' = [pc EXCEPT ![p] = "done"]
    /\ UNCHANGED <<tx, txMeta, totalGasUsed, totalEthSpent, idCounter, wallet, resolved, proxyVars, objGasUsed,
                   objTotalGasUsed, netNonce, lock, nonce, nonceAddr>>

\* getNonce: the node answers with the account's transaction count n; the
\* nonce is computed, then submitTx tests the backpressure and either
\* sleeps or enters its try block.
NodeQueryAnswers(p, n, threw) ==
    /\ pc[p] = "query"
    /\ threw => txMeta[p].txType # "send"
    /\ n >= netNonce[nonceAddr[p]]
    /\ netNonce' = [netNonce EXCEPT ![nonceAddr[p]] = n]
    /\ LET nextNonce == getNonceResult(txMeta, tx, nonceAddr[p], n).nextNonce
       IN IF Sleeps(txMeta[p].txType, Len(getSubmittedTransactions(txMeta, tx)))
          THEN /\ pc' = [pc EXCEPT ![p] = "sleep"]
               /\ nonce' = [nonce EXCEPT ![p] = nextNonce]
               /\ UNCHANGED <<tx, txMeta, totalGasUsed, totalEthSpent, lockMap, objGasUsed,
                              objTotalGasUsed, nonceReleases, ret, nonceAddr>>
          ELSE /\ TryBlock(p, nextNonce, threw)
               /\ UNCHANGED nonce
    /\ UNCHANGED <<idCounter, wallet, resolved, proxyVars, lock>>

\* The sleep of the backpressure loop ends: the loop tests again.
Wake(p) ==
    /\ pc[p] = "sleep"
    /\ IF Len(getSubmittedTransactions(txMeta, tx)) > awaitLimit
       THEN UNCHANGED <<tx, txMeta, totalGasUsed, totalEthSpent, lockMap, objGasUsed,
                        objTotalGasUsed, nonceReleases, ret, pc, nonce, nonceAddr>>
       ELSE /\ TryBlock(p, nonce[p], FALSE)
            /\ nonce' = [nonce EXCEPT ![p] = NoNonce]
    /\ UNCHANGED <<idCounter, wallet, resolved, proxyVars, netNonce, lock>>

\* The node's send throws.
SendThrows(p, threw) ==
    /\ pc[p] = "send"
    /\ Finish(p, txMeta, tx, lockMap, nonceReleases, "sendError", Undefined, threw)
    /\ UNCHANGED <<idCounter, wallet, resolved, proxyVars, netNonce, lock, nonce>>

\* The node's send resolves with a receipt.
SendReturns(p, gasUsed, threw) ==
    /\ pc[p] = "send"
    /\ Finish(p, txMeta, tx, lockMap, nonceReleases, "undefined", Value(gasUsed), threw)
    /\ UNCHANGED <<idCounter, wallet, resolved, proxyVars, netNonce, lock, nonce>>

\* _getGlobalLock: another party takes the global mutex and keeps its
\* release function for a while.
GetGlobalLock ==
    /\ CanAcquire(lockMap, Global)
    /\ \E p \in Procs : pc[p] \in {"idle", "gate", "txlock", "add"}
    /\ lockMap' = [lockMap EXCEPT ![Global] = External]
    /\ UNCHANGED <<tx, txMeta, totalGasUsed, totalEthSpent, idCounter, wallet, resolved, proxyVars, objGasUsed,
                   objTotalGasUsed, netNonce, pc, lock, nonceAddr, nonce, nonceReleases, ret>>

ReleaseGlobalLock ==
    /\ lockMap[Global] = External
    /\ lockMap' = [lockMap EXCEPT ![Global] = Free]
    /\ UNCHANGED <<tx, txMeta, totalGasUsed, totalEthSpent, idCounter, wallet, resolved, proxyVars, objGasUsed,
                   objTotalGasUsed, netNonce, pc, lock, nonceAddr, nonce, nonceReleases, ret>>

\* set wallet(index) of the contract handle.
SetWallet(a) ==
    /\ wallet # a
    /\ \E p \in Procs : pc[p] \in {"idle", "gate", "txlock", "add"}
    /\ wallet' = a
    /\ UNCHANGED <<resolved, proxyVars, tx, txMeta, totalGasUsed, totalEthSpent, idCounter, lockMap, objGasUsed,
                   objTotalGasUsed, netNonce, pc, lock, nonceAddr, nonce, nonceReleases, ret>>

\* ------------------------------------------------------- specification
\* An earlier call: a send of account A with an integer gas price,
\* dispatched and not yet answered.
EarlyMeta(e) ==
    [id |-> MAX_SAFE_INTEGER - 1 - (e - NProc), address |-> "A", txType |-> "send",
     status |-> "submitted", nonce |-> e - NProc - 1, gasUsed |-> 0, gasPrice |-> 1]

Init ==
    /\ tx = [i \in 1..awaitLimit |-> NProc + i]
    /\ txMeta = [p \in Calls |-> IF p \in Early THEN EarlyMeta(p) ELSE NoMeta]
    /\ totalGasUsed = 0
    /\ totalEthSpent = 0
    /\ idCounter = MAX_SAFE_INTEGER - 1
    /\ lockMap = [k \in LockIds |-> Free]
    /\ wallet = "A"
    /\ resolved = NoNonceResult
    /\ objGasUsed = 0
    /\ objTotalGasUsed = 0
    /\ netNonce = [a \in Accounts |-> 0]
    /\ pc = [p \in Calls |-> IF p \in Early THEN "send" ELSE "idle"]
    /\ lock = [p \in Calls |-> FALSE]
    /\ nonceAddr = [p \in Calls |-> "A"]
    /\ nonce = [p \in Calls |-> NoNonce]
    /\ nonceReleases = [p \in Calls |-> IF p \in Early THEN 1 ELSE 0]
    /\ ret = [p \in Calls |-> NoRet]
    /\ member = [p \in Calls |-> "none"]
    /\ cached = {}
    /\ callback = [p \in Calls |-> FALSE]
    /\ opResult = NoOp

Next ==
    \/ \E p \in Procs, address \in Accounts, txType \in TxTypes, lockArg \in BOOLEAN,
          gasPrice \in 1..MaxGasPrice :
          SubmitTx(p, address, txType, lockArg, NoId, gasPrice)
    \/ \E p \in Procs, ok \in BOOLEAN : CallReturn(p, ok, 1)
    \/ \E p \in Procs : GlobalLockFree(p)
    \/ \E p \in Procs : AddTx(p)
    \/ \E p \in Procs : GetTxLock(p)
    \/ \E p \in Procs : GetNonceLock(p)
    \/ \E p \in Procs : NodeQueryFails(p)
    \/ \E p \in Procs, n \in 0..MaxNetNonce, threw \in BOOLEAN : NodeQueryAnswers(p, n, threw)
    \/ \E p \in Procs : Wake(p)
    \/ \E p \in Calls, threw \in BOOLEAN :
          (p \in Early => ~threw) /\ SendThrows(p, threw)
    \/ \E p \in Calls, gasUsed \in 1..MaxGas, threw \in BOOLEAN :
          (p \in Early => ~threw) /\ SendReturns(p, gasUsed, threw)
    \/ GetGlobalLock
    \/ ReleaseGlobalLock
    \/ \E a \in Accounts : SetWallet(a)

Spec == Init /\ [][Next]_vars

\* ---------------------------------------- the nonce resolver on its own
\* Every ledger of NEntries send intents: a pending entry has no nonce
\* yet, any other has the nonce it was submitted with.
Shapes ==
    [status : {"pending"}, nonce : {NoNonce}, address : Accounts]
    \cup [status : {"submitted", "confirmed", "failed"}, nonce : 0..MaxNonceIn,
          address : Accounts]

Quiet ==
    /\ totalGasUsed = 0
    /\ totalEthSpent = 0
    /\ lockMap = [k \in LockIds |-> Free]
    /\ wallet = "A"
    /\ resolved = NoNonceResult
    /\ objGasUsed = 0
    /\ objTotalGasUsed = 0
    /\ netNonce = [a \in Accounts |-> 0]
    /\ pc = [p \in Calls |-> "done"]
    /\ lock = [p \in Calls |-> FALSE]
    /\ nonceAddr = [p \in Calls |-> "A"]
    /\ nonce = [p \in Calls |-> NoNonce]
    /\ nonceReleases = [p \in Calls |-> 0]
    /\ ret = [p \in Calls |-> NoRet]
    /\ member = [p \in Calls |-> "none"]
    /\ cached = {}
    /\ callback = [p \in Calls |-> FALSE]
    /\ opResult = NoOp

InitNonce ==
    /\ \E f \in [1..NEntries -> Shapes] :
          txMeta = [i \in 1..NEntries |->
                      [id |-> i, address |-> f[i].address, txType |-> "send",
                       status |-> f[i].status, nonce |-> f[i].nonce, gasUsed |-> 0,
                       gasPrice |-> 1]]
    /\ tx = [i \in 1..NEntries |-> i]
    /\ idCounter = NEntries + 1
    /\ Quiet

\* getNonce(obj) with obj.wallet = address, the node answering
\* nextNetworkNonce.
GetNonce(address, nextNetworkNonce) ==
    /\ resolved = NoNonceResult
    /\ LET r == getNonceResult(txMeta, tx, address, nextNetworkNonce)
       IN resolved' = [address |-> address, nextNonce |-> r.nextNonce,
                       localNonceResult |-> r.localNonceResult,
                       highestLocallyConfirmed |-> r.highestLocallyConfirmed,
                       highestSuggested |-> r.highestSuggested,
                       nextNetworkNonce |-> r.nextNetworkNonce]
    /\ UNCHANGED <<tx, txMeta, totalGasUsed, totalEthSpent, idCounter, lockMap, wallet,
                   objGasUsed, objTotalGasUsed, netNonce, pc, lock, nonceAddr, nonce,
                   nonceReleases, ret, proxyVars>>

NextNonce == \E address \in Accounts, n \in 0..MaxNonceIn : GetNonce(address, n)

SpecNonce == InitNonce /\ [][NextNonce]_vars

\* ------------------------------------------ the ledger operations alone
\* The id and the status an intent handed to addTx may carry.
IdsIn == {NoId, 0, 1, 2}
StatusIn == {"none", "pending", "confirmed"}

InitLedger ==
    /\ tx = <<>>
    /\ txMeta = [o \in 1..NEntries |-> NoMeta]
    /\ idCounter \in 0..MAX_SAFE_INTEGER
    /\ Quiet

\* addTx(args) for a new intent object carrying id and status.
AddTxOp(id, status) ==
    LET o == Len(tx) + 1
        args == [NoMeta EXCEPT !.id = id, !.status = status]
    IN /\ o <= NEntries
       /\ txMeta' = [txMeta EXCEPT ![o] = addTxMeta(args, idCounter)]
       /\ idCounter' = addTxCounter(args, idCounter)
       /\ tx' = Append(tx, o)
       /\ opResult' = [op |-> "addTx", how |-> "returned",
                       val |-> addTxMeta(args, idCounter).id]
       /\ UNCHANGED <<totalGasUsed, totalEthSpent, lockMap, wallet, resolved, objGasUsed,
                      objTotalGasUsed, netNonce, pc, lock, nonceAddr, nonce,
                      nonceReleases, ret, member, cached, callback>>

\* The owner of intent o sets its status and calls updateTx(o); o may be
\* an intent that addTx never saw, whose id is then in no entry.  updateTx
\* has no throw: it returns whatever findIndex found (0 stands for -1).
UpdateTxOp(o, status) ==
    LET meta == [txMeta EXCEPT ![o].status = status]
    IN /\ txMeta[o].status # status
       /\ txMeta' = meta
       /\ tx' = updateTx(meta, tx, o)
       /\ opResult' = [op |-> "updateTx", how |-> "returned",
                       val |-> findIndex(meta, tx, meta[o].id)]
       /\ UNCHANGED <<totalGasUsed, totalEthSpent, idCounter, lockMap, wallet, resolved,
                      objGasUsed, objTotalGasUsed, netNonce, pc, lock, nonceAddr, nonce,
                      nonceReleases, ret, member, cached, callback>>

NextLedger ==
    \/ \E id \in IdsIn, status \in StatusIn : AddTxOp(id, status)
    \/ \E o \in 1..NEntries, status \in Statuses : UpdateTxOp(o, status)

SpecLedger == InitLedger /\ [][NextLedger]_vars

\* ------------------------------------------- the contract handle's proxy
\* Functions of the attached ABI (AccessInterface.sol) with their state
\* mutability, and its events as the handle names them.
Functions == {"unsubscribe", "minDays", "subscribe"}
Abi == [f \in Functions |-> IF f = "minDays" THEN "view"
                            ELSE IF f = "subscribe" THEN "payable" ELSE "nonpayable"]
Events == {"onTokenStatusChanged"}
\* The constructor's classification of the ABI.
callStates == {"pure", "view"}
sentMethods == {f \in Functions : Abi[f] \notin callStates}
callMethods == {f \in Functions : Abi[f] \in callStates}
proxyMethods == sentMethods \cup callMethods \cup Events
\* Names of the ABI that class AccessInterface defines as methods.
ClassMembers == {"subscribe"}

\* proxyHandler.get(obj, prop): which function the handle hands out.
proxyGet(cachedProps, prop) ==
    IF prop \notin proxyMethods THEN "class"
    ELSE IF prop \in ClassMembers THEN "class"
    ELSE IF prop \in cachedProps
         THEN IF prop \in Events THEN "proxyAddEvent" ELSE "proxyAddProp"
    ELSE IF prop \in Events THEN "proxyAddEvent"
    ELSE "proxyAddProp"

\* getTxMeta: the txType of the intent of a method.
getTxMetaType(method) ==
    IF method \in sentMethods THEN "send"
    ELSE IF method \in callMethods THEN "call"
    ELSE "undefined"

Truthy(err) == err \notin {"undefined", "null"}

\* returnValue that throws no error.
returnValueSilent(err, result, cb) ==
    IF cb THEN [how |-> "callback", err |-> err, result |-> result]
    ELSE [how |-> "returned", err |-> "undefined", result |-> result]

\* returnValue(err, result, callback): the pair goes to the callback, or
\* the error is thrown, or the result returned.
returnValue(err, result, cb) ==
    IF cb THEN [how |-> "callback", err |-> err, result |-> result]
    ELSE IF Truthy(err) THEN [how |-> "thrown", err |-> err, result |-> Undefined]
    ELSE [how |-> "returned", err |-> "undefined", result |-> result]

\* How the member call p ended for its caller: an error thrown on the way
\* (by getTxMeta, submitTx or the class method) rejects the call, a pair
\* goes through returnValue.
Outcome(p) ==
    IF ret[p].how = "thrown"
    THEN [how |-> "thrown", err |-> ret[p].err, result |-> Undefined]
    ELSE returnValue(ret[p].err, ret[p].result, callback[p])

\* The caller reads member prop of the handle and calls it, with or
\* without a trailing callback.  A generated member (proxyAddProp) builds
\* the intent with getTxMeta, which for a sent method awaits the node's
\* gas price and for a call method goes on into submitTx; a method of the
\* class runs instead.
InvokeMember(p, prop, cb, gasPrice) ==
    /\ pc[p] = "idle"
    /\ \A q \in Procs : q < p => pc[q] # "idle"
    /\ member' = [member EXCEPT ![p] = prop]
    /\ callback' = [callback EXCEPT ![p] = cb]
    /\ IF proxyGet(cached, prop) = "proxyAddProp"
       THEN /\ cached' = cached \cup {prop}
            /\ txMeta' = [txMeta EXCEPT ![p] =
                            [id |-> NoId, address |-> wallet,
                             txType |-> getTxMetaType(prop), status |-> "none",
                             nonce |-> NoNonce, gasUsed |-> 0, gasPrice |-> gasPrice]]
            /\ pc' = [pc EXCEPT ![p] = IF getTxMetaType(prop) = "send" THEN "gasprice"
                                       ELSE FirstAwait(getTxMetaType(prop))]
       ELSE /\ pc' = [pc EXCEPT ![p] = "subscribe"]
            /\ UNCHANGED <<cached, txMeta>>
    /\ UNCHANGED <<tx, totalGasUsed, totalEthSpent, idCounter, lockMap, wallet, resolved,
                   objGasUsed, objTotalGasUsed, netNonce, lock, nonceAddr, nonce,
                   nonceReleases, ret, opResult>>

\* getTxMeta: the node answers getGasPrice and submitTx starts (lock is
\* not passed), or the query fails and the member call is rejected.
GasPriceAnswers(p, ok) ==
    /\ pc[p] = "gasprice"
    /\ IF ok
       THEN /\ pc' = [pc EXCEPT ![p] = FirstAwait(txMeta[p].txType)]
            /\ UNCHANGED ret
       ELSE /\ pc' = [pc EXCEPT ![p] = "done"]
            /\ ret' = [ret EXCEPT ![p] = [how |-> "thrown", err |-> "gasPriceError",
                                          result |-> Undefined, dispatch |-> "none"]]
    /\ UNCHANGED <<tx, txMeta, totalGasUsed, totalEthSpent, idCounter, lockMap, wallet,
                   resolved, objGasUsed, objTotalGasUsed, netNonce, lock, nonceAddr, nonce,
                   nonceReleases, proxyVars>>

SubscribeOutcomes == {"sent", "sendError", "readError", "thrown"}

\* AccessInterface.subscribe: the reads (minDays, isExistingSubscriber,
\* calculatePrice) change nothing; the method throws, or hands a read
\* error to returnValue, or sends through contract.methods directly and,
\* with a receipt, calls updateStat.
Subscribe(p, outcome, gasUsed, gasPrice) ==
    /\ pc[p] = "subscribe"
    /\ totalGasUsed' = IF outcome = "sent" THEN totalGasUsed + gasUsed ELSE totalGasUsed
    /\ totalEthSpent' = IF outcome = "sent" THEN totalEthSpent + gasUsed * gasPrice
                        ELSE totalEthSpent
    /\ ret' = [ret EXCEPT ![p] =
                 IF outcome = "thrown"
                 THEN [how |-> "thrown", err |-> "subscribeError", result |-> Undefined,
                       dispatch |-> "none"]
                 ELSE IF outcome = "readError"
                 THEN [how |-> "returned", err |-> "callError", result |-> Null,
                       dispatch |-> "none"]
                 ELSE IF outcome = "sendError"
                 THEN [how |-> "returned", err |-> "sendError", result |-> Null,
                       dispatch |-> "threw"]
                 ELSE [how |-> "returned", err |-> "null", result |-> Value(gasUsed),
                       dispatch |-> "resolved"]]
    /\ pc' = [pc EXCEPT ![p] = "done"]
    /\ UNCHANGED <<tx, txMeta, idCounter, lockMap, wallet, resolved, objGasUsed,
                   objTotalGasUsed, netNonce, lock, nonceAddr, nonce, nonceReleases,
                   proxyVars>>

\* Calls made through the members of one contract handle.
NextProxy ==
    \/ \E p \in Procs, prop \in Functions, cb \in BOOLEAN, gasPrice \in 1..MaxGasPrice :
          InvokeMember(p, prop, cb, gasPrice)
    \/ \E p \in Procs, ok \in BOOLEAN : GasPriceAnswers(p, ok)
    \/ \E p \in Procs, outcome \in SubscribeOutcomes, gasUsed \in 1..MaxGas,
          gasPrice \in 1..MaxGasPrice : Subscribe(p, outcome, gasUsed, gasPrice)
    \/ \E p \in Procs, ok \in BOOLEAN : CallReturn(p, ok, 1)
    \/ \E p \in Procs : GlobalLockFree(p)
    \/ \E p \in Procs : AddTx(p)
    \/ \E p \in Procs : GetNonceLock(p)
    \/ \E p \in Procs : NodeQueryFails(p)
    \/ \E p \in Procs, n \in 0..MaxNetNonce : NodeQueryAnswers(p, n, FALSE)
    \/ \E p \in Procs : Wake(p)
    \/ \E p \in Calls, threw \in BOOLEAN :
          (p \in Early => ~threw) /\ SendThrows(p, threw)
    \/ \E p \in Calls, gasUsed \in 1..MaxGas, threw \in BOOLEAN :
          (p \in Early => ~threw) /\ SendReturns(p, gasUsed, threw)

SpecProxy == Init /\ [][NextProxy]_vars

\* ------------------------------------------------ the gas price of getTxMeta
\* Largest gas price tried, as a per-call option, as the handle's setting
\* and as the node's answer.
MaxPriceIn == 4
\* no price: undefined (option) or null (setting)
NoPrice == 0 - 1
\* what JavaScript's || and ! take for absent: undefined, null and 0
Falsy(price) == price = NoPrice \/ price = 0

\* The node's price times 1.2, rounded down.
FloorInflated(networkGasPrice) == (networkGasPrice * 12) \div 10

\* Math.ceil(parseInt(gasPrice) * 1.2)
CeilInflated(networkGasPrice) == (networkGasPrice * 12 + 9) \div 10

\* Lines 156-162 of getTxMeta: options.gasPrice afterwards, and whether the
\* warning is logged.
getTxMetaGasPrice(optionsGasPrice, objGasPrice, networkGasPrice) ==
    LET own == IF Falsy(optionsGasPrice) THEN objGasPrice ELSE optionsGasPrice
    IN IF Falsy(own)
       THEN [gasPrice |-> CeilInflated(networkGasPrice), warned |-> FALSE]
       ELSE [gasPrice |-> own, warned |-> networkGasPrice > own]

InitGasPrice ==
    /\ tx = <<>>
    /\ txMeta = [o \in 1..NEntries |-> NoMeta]
    /\ idCounter = 0
    /\ Quiet

\* getTxMeta for a sent method: the caller's option, the handle's gasPrice
\* (null, or the wei of a positive setting) and the node's answer.
GetTxMeta(optionsGasPrice, objGasPrice, networkGasPrice) ==
    /\ opResult = NoOp
    /\ LET r == getTxMetaGasPrice(optionsGasPrice, objGasPrice, networkGasPrice)
       IN opResult' = [op |-> "getTxMeta", how |-> "returned", val |-> r.gasPrice,
                       warned |-> r.warned, options |-> optionsGasPrice,
                       setting |-> objGasPrice, network |-> networkGasPrice]
    /\ UNCHANGED <<tx, txMeta, totalGasUsed, totalEthSpent, idCounter, lockMap, wallet,
                   resolved, objGasUsed, objTotalGasUsed, netNonce, pc, lock, nonceAddr,
                   nonce, nonceReleases, ret, member, cached, callback>>

NextGasPrice ==
    \E optionsGasPrice \in {NoPrice} \cup 0..MaxPriceIn,
       objGasPrice \in {NoPrice} \cup 1..MaxPriceIn,
       networkGasPrice \in 0..MaxPriceIn :
       GetTxMeta(optionsGasPrice, objGasPrice, networkGasPrice)

SpecGasPrice == InitGasPrice /\ [][NextGasPrice]_vars

\* ================================================================ claims
\* The mutexes call p holds.
HeldBy(p) == {k \in LockIds : lockMap[k].by = p}
\* The number of ledger positions whose entry has status s.
CountStatus(s) == Cardinality({i \in 1..Len(tx) : Entry(i).status = s})

\* C1: no two ledger entries with the same address and status 'submitted'
\* carry the same nonce.
C1_SubmittedNoncesDistinct ==
    \A i, j \in 1..Len(tx) :
        (/\ i < j
         /\ Entry(i).status = "submitted" /\ Entry(j).status = "submitted"
         /\ Entry(i).address = Entry(j).address)
        => Entry(i).nonce # Entry(j).nonce

\* C2: a submitTx call that went through getNonce has, when it is over,
\* invoked the release of its nonce lock exactly once and does not hold
\* the lock.
C2_NonceLockReleasedOnce ==
    \A p \in Calls :
        (pc[p] = "done" /\ txMeta[p].txType # "call")
        => /\ nonceReleases[p] = 1
           /\ \A k \in LockIds : lockMap[k] # Held(p, "nonce")

\* C3: when the node's send throws, submitTx returns (error, undefined),
\* the intent's entry is 'failed', and the call holds no mutex: not the
\* nonce lock, not the exclusive per-account lock, not the global one.
C3_SendThrowsHandled ==
    \A p \in Calls :
        (pc[p] = "done" /\ ret[p].dispatch = "threw")
        => /\ ret[p].how = "returned"
           /\ ret[p].err # "undefined" /\ ret[p].err # "null"
           /\ ret[p].result = Undefined
           /\ txMeta[p].status = "failed"
           /\ \E i \in 1..Len(tx) : tx[i] = p
           /\ HeldBy(p) = {}
C3_Witness ==
    \E p \in Procs : pc[p] = "done" /\ ret[p].dispatch = "threw" /\ lock[p]

\* C4: an intent becomes 'submitted' only in a state where fewer than
\* awaitLimit entries are 'submitted': with awaitLimit entries in flight,
\* one more submission waits.
C4_WaitsAtThreshold ==
    [][\A p \in Calls :
         (txMeta[p].status # "submitted" /\ txMeta'[p].status = "submitted")
         => Len(getSubmittedTransactions(txMeta, tx)) < awaitLimit]_vars

\* C7: every step of a submitTx call with a call intent leaves the ledger,
\* its entries, the totals, the id counter and every mutex as they were,
\* resolves no nonce, and the call returns the pair made of the node's answer.
C7_CallLeavesLedger ==
    [][\A p \in Procs :
         (pc'[p] # pc[p] /\ txMeta'[p].txType = "call")
         => /\ tx' = tx
            /\ \A i \in 1..Len(tx) : txMeta'[tx'[i]] = txMeta[tx[i]]
            /\ totalGasUsed' = totalGasUsed /\ totalEthSpent' = totalEthSpent
            /\ idCounter' = idCounter
            /\ lockMap' = lockMap
            /\ netNonce' = netNonce
            /\ nonce'[p] = NoNonce /\ txMeta'[p].nonce = NoNonce
            /\ pc'[p] \in {"call", "done"}
            /\ pc'[p] = "done" =>
                 /\ ret'[p].how = "returned"
                 /\ \/ ret'[p].err = "null" /\ ret'[p].result.kind = "value"
                    \/ ret'[p].err = "callError" /\ ret'[p].result = Null]_vars
C7_Witness ==
    \E p \in Procs :
        /\ pc[p] = "done" /\ txMeta[p].txType = "call" /\ ret[p].how = "returned"
        /\ \A i \in 1..Len(tx) : tx[i] # p

\* C8: each of the four counts of getTxStat is the number of ledger
\* entries with that status.
C8_StatsMatchLedger ==
    /\ getTxStat.submitted = CountStatus("submitted")
    /\ getTxStat.pending = CountStatus("pending")
    /\ getTxStat.failed = CountStatus("failed")
    /\ getTxStat.confirmed = CountStatus("confirmed")
C8_Witness ==
    /\ getTxStat.pending >= 1 /\ getTxStat.failed >= 1 /\ getTxStat.confirmed >= 1

\* C9: the status of a ledger entry never becomes 'pending' again once it
\* left it, and never changes once it is 'confirmed' or 'failed'.
C9_StatusMonotonic ==
    [][\A i \in 1..Len(tx) :
         /\ i <= Len(tx')
         /\ Entry(i).status # "pending" => txMeta'[tx'[i]].status # "pending"
         /\ Entry(i).status \in {"confirmed", "failed"}
              => txMeta'[tx'[i]].status = Entry(i).status
         /\ txMeta'[tx'[i]].status = "submitted"
              => Entry(i).status \in {"pending", "submitted"}]_vars
C9_Witness ==
    \E i, j \in 1..Len(tx) : Entry(i).status = "confirmed" /\ Entry(j).status = "failed"

\* The reference value of the next nonce of account a when the node
\* reports n: from the confirmed and the submitted nonces of the account.
ConfirmedNonces(a) ==
    {Entry(i).nonce : i \in {j \in 1..Len(tx) :
                                Entry(j).status = "confirmed" /\ Entry(j).address = a}}
SubmittedNonces(a) ==
    {Entry(i).nonce : i \in {j \in 1..Len(tx) :
                                Entry(j).status = "submitted" /\ Entry(j).address = a}}
RefConfirmed(a) ==
    IF ConfirmedNonces(a) = {} THEN 0
    ELSE 1 + CHOOSE m \in ConfirmedNonces(a) : \A k \in ConfirmedNonces(a) : k <= m
RefNext(a, n) ==
    LET start == Max(n, RefConfirmed(a))
    IN CHOOSE k \in start..(start + Len(tx)) :
          /\ k \notin SubmittedNonces(a)
          /\ \A m \in start..(k - 1) : m \in SubmittedNonces(a)

\* C5: getNonce returns the smallest nonce that is at least the node's
\* count and at least one more than every confirmed nonce of the account,
\* and that no submitted entry of the account carries.
C5_NextNonceIsReference ==
    resolved.address # "none"
    => /\ resolved.highestLocallyConfirmed = RefConfirmed(resolved.address)
       /\ resolved.nextNonce = RefNext(resolved.address, resolved.nextNetworkNonce)
C5_Witness ==
    /\ resolved.address # "none"
    /\ resolved.nextNetworkNonce = 3
    /\ ConfirmedNonces(resolved.address) = {4}
    /\ Cardinality({j \in 1..Len(tx) : Entry(j).status = "confirmed"
                                        /\ Entry(j).address = resolved.address}) = 1
    /\ SubmittedNonces(resolved.address) = {}
    /\ resolved.highestLocallyConfirmed = 5
    /\ resolved.nextNonce = 5

\* C6: the local nonce result, and so the next nonce, is never below the
\* node's transaction count.
C6_LocalAtLeastNetwork ==
    resolved.address # "none"
    => /\ resolved.localNonceResult >= resolved.nextNetworkNonce
       /\ resolved.nextNonce >= resolved.nextNetworkNonce
C6_Witness ==
    /\ resolved.address # "none"
    /\ resolved.nextNetworkNonce = 2
    /\ RefConfirmed(resolved.address) < 2
    /\ 2 \in SubmittedNonces(resolved.address)
    /\ resolved.localNonceResult = 3

\* C10: no two ledger entries have the same id.
C10_IdsDistinct ==
    \A i, j \in 1..Len(tx) : i < j => Entry(i).id # Entry(j).id

\* C11: a send submission that is over has returned its (error, result)
\* pair and holds no mutex; its entry is 'failed' when a step from the
\* nonce resolution to the dispatch failed (the error of the pair), and
\* 'confirmed' otherwise, never 'pending' or 'submitted'.
C11_FailureFinalized ==
    \A p \in Procs :
        (pc[p] = "done" /\ txMeta[p].txType = "send")
        => /\ ret[p].how = "returned"
           /\ HeldBy(p) = {}
           /\ txMeta[p].status \in {"failed", "confirmed"}
           /\ txMeta[p].status = "failed" <=> ret[p].err # "undefined"

\* C12: a submitTx call with an unsupported txType does not throw: it
\* returns the 'Unsupported method' error in its pair and the entry it
\* registered is 'failed'.
C12_UnsupportedReturnsError ==
    \A p \in Procs :
        (pc[p] = "done" /\ txMeta[p].txType = "undefined")
        => /\ ret[p].how = "returned"
           /\ ret[p].err = "unsupported"
           /\ \E i \in 1..Len(tx) : tx[i] = p /\ Entry(i).status = "failed"

\* C13: when a node query fails inside getNonce, the mutex of the account
\* that this getNonce acquired is free in the state in which the error
\* reaches the caller, so that a later getNonce of the account can
\* acquire it.
C13_QueryFailureReleasesLock ==
    [][\A p \in Procs :
         (pc[p] = "query" /\ ret'[p].err = "queryError")
         => /\ lockMap[nonceAddr[p]] = Held(p, "nonce")
            /\ \A k \in LockIds : lockMap'[k] # Held(p, "nonce")
            /\ CanAcquire(lockMap', nonceAddr[p])]_vars
C13_Witness ==
    \E p, q \in Procs :
        /\ p # q
        /\ ret[p].err = "queryError"
        /\ lockMap[nonceAddr[p]] = Held(q, "nonce")

\* C14: a submitTx call that is over, on whatever exit path, holds no
\* mutex.
C14_NoLockHeldAfterExit ==
    \A p \in Calls : pc[p] = "done" => HeldBy(p) = {}

\* C15: the number of 'submitted' ledger entries never exceeds the
\* threshold.
C15_SubmittedBounded ==
    Len(getSubmittedTransactions(txMeta, tx)) <= awaitLimit

\* r holds, in ledger order, the entries at the ledger positions pos and
\* no other.
IsSubsequenceAt(r, pos) ==
    \E f \in [1..Len(r) -> 1..Len(tx)] :
        /\ \A i, j \in 1..Len(r) : i < j => f[i] < f[j]
        /\ \A i \in 1..Len(r) : r[i] = tx[f[i]]
        /\ {f[i] : i \in 1..Len(r)} = pos

\* C19: each filter operation returns a subsequence of the ledger in
\* ledger order, made of the entries that match the status (and the
\* address) asked for; being a function of the ledger alone it changes
\* nothing and returns the same sequence while the ledger is unchanged.
C19_FiltersKeepLedgerOrder ==
    \A status \in Statuses :
        /\ IsSubsequenceAt(getFilteredTxList(txMeta, tx, status),
                           {i \in 1..Len(tx) : Entry(i).status = status})
        /\ \A address \in Accounts :
              /\ IsSubsequenceAt(getFilteredTxListAt(txMeta, tx, status, address),
                                 {i \in 1..Len(tx) : /\ Entry(i).status = status
                                                     /\ Entry(i).address = address})
              /\ IsSubsequenceAt(getTxsByAddress(txMeta, tx, address),
                                 {i \in 1..Len(tx) : Entry(i).address = address})
C19_Witness ==
    \E status \in Statuses, address \in Accounts :
        /\ Len(tx) = 3
        /\ getFilteredTxListAt(txMeta, tx, status, address) = <<tx[1], tx[3]>>
        /\ Len(getFilteredTxList(txMeta, tx, status)) = 3

\* C20: updateTx with an intent whose id is in no ledger entry ends in an
\* error and leaves the ledger and its entries as they were; with an id
\* that exists it replaces the entry of that id and leaves the ledger
\* length and every other entry as they were.
C20_UpdateTxChecksId ==
    [][opResult'.op = "updateTx"
       => /\ Len(tx') = Len(tx)
          /\ IF opResult'.val = 0
             THEN /\ opResult'.how = "thrown"
                  /\ tx' = tx
                  /\ \A i \in 1..Len(tx) : txMeta'[tx[i]] = txMeta[tx[i]]
             ELSE /\ \A i \in 1..Len(tx) : i # opResult'.val => tx'[i] = tx[i]
                  /\ Entry(opResult'.val).id = txMeta'[tx'[opResult'.val]].id]_vars

\* The ledger positions that hold the intent of call p.
PositionsOf(p) == {i \in 1..Len(tx) : tx[i] = p}

\* C16: a call of a generated member that is over has, with a trailing
\* callback, handed its outcome to the callback as (error, result) and
\* thrown nothing; without a callback it has thrown its error, or
\* returned the result when there is no error.
C16_OutcomeByStyle ==
    \A p \in Procs :
        (pc[p] = "done" /\ member[p] \in Functions
                        /\ proxyGet(cached, member[p]) = "proxyAddProp")
        => IF callback[p]
           THEN Outcome(p).how = "callback"
           ELSE IF ret[p].how = "thrown" \/ Truthy(ret[p].err)
           THEN Outcome(p).how = "thrown" /\ Outcome(p).err = ret[p].err
           ELSE Outcome(p).how = "returned" /\ Outcome(p).result = ret[p].result

\* C17: a call of a declared function that is over (its intent built)
\* has, for a view or pure function, made a call intent that is in no
\* ledger entry, and for any other function made a send intent that is
\* in exactly one ledger entry.
C17_DeclaredFunctionsRouted ==
    \A p \in Procs :
        (pc[p] = "done" /\ member[p] \in Functions /\ ret[p].err # "gasPriceError")
        => IF Abi[member[p]] \in callStates
           THEN txMeta[p].txType = "call" /\ PositionsOf(p) = {}
           ELSE txMeta[p].txType = "send" /\ Cardinality(PositionsOf(p)) = 1

\* C18: when a call of a generated sent method made in the awaiting style
\* (no callback) returns normally, the node's send of its intent has
\* resolved and its one ledger entry is 'confirmed'.
C18_AwaitedWriteConfirmed ==
    \A p \in Procs :
        (/\ pc[p] = "done" /\ member[p] \in sentMethods
         /\ proxyGet(cached, member[p]) = "proxyAddProp"
         /\ ~callback[p]
         /\ Outcome(p).how = "returned")
        => /\ ret[p].dispatch = "resolved"
           /\ Outcome(p).result.kind = "value"
           /\ Cardinality(PositionsOf(p)) = 1
           /\ txMeta[p].status = "confirmed"
C18_Witness ==
    \E p, q \in Procs :
        /\ p < q
        /\ pc[p] = "done" /\ member[p] = "unsubscribe" /\ ~callback[p]
        /\ Outcome(p).how = "returned" /\ txMeta[p].status = "confirmed"
        /\ pc[q] = "done" /\ member[q] = "minDays" /\ Outcome(q).how = "returned"

C22_AppendOnly ==
    [][/\ Len(tx') >= Len(tx)
       /\ \A i \in 1..Len(tx) :
             /\ txMeta'[tx'[i]].id = Entry(i).id
             /\ Entry(i).id # NoId]_vars
C22_Witness ==
    /\ opResult.op = "updateTx" /\ opResult.val = 1
    /\ Len(tx) = 2
    /\ Entry(1).status = "failed" /\ Entry(2).status = "pending"

\* C23: a call that sleeps in the backpressure loop with its nonce
\* resolved holds the nonce lock; and the step of a send intent that
\* releases the nonce lock (other than on a failed node query) ends with
\* the intent in the ledger, 'submitted', carrying the resolved nonce.
C23_NonceRecordedBeforeRelease ==
    [][\A p \in Procs :
         /\ pc'[p] = "sleep" => lockMap'[nonceAddr'[p]] = Held(p, "nonce")
         /\ (/\ txMeta[p].txType = "send"
             /\ lockMap[nonceAddr[p]] = Held(p, "nonce")
             /\ lockMap'[nonceAddr[p]] # Held(p, "nonce")
             /\ ret'[p].err # "queryError")
            => /\ \E i \in 1..Len(tx') : tx'[i] = p
               /\ txMeta'[p].status = "submitted"
               /\ IsInteger(txMeta'[p].nonce)
               /\ pc[p] = "sleep" => txMeta'[p].nonce = nonce[p]
               /\ pc[p] = "query" =>
                    txMeta'[p].nonce =
                      getNonceResult(txMeta, tx, nonceAddr[p],
                                     netNonce'[nonceAddr[p]]).nextNonce]_vars
C23_Witness ==
    \E p, q \in Procs :
        /\ pc[p] = "send" /\ txMeta[p].status = "submitted" /\ IsInteger(txMeta[p].nonce)
        /\ HeldBy(p) = {}
        /\ pc[q] = "sleep" /\ IsInteger(nonce[q])
        /\ lockMap[nonceAddr[q]] = Held(q, "nonce")

\* Whether the intent of call p is in the ledger l.
InLedger(l, p) == \E i \in 1..Len(l) : l[i] = p

Exclusive(p) == lock[p] /\ InLedger(tx, p) /\ pc[p] # "done"

\* C25: no two calls made with the exclusive-lock flag for the same
\* account are between registering their intent and returning at the
\* same time, and such a call that has returned does not hold the
\* exclusive lock of its account.
C25_ExclusiveSerialized ==
    /\ \A p, q \in Procs :
          (p # q /\ Exclusive(p) /\ Exclusive(q))
          => txMeta[p].address # txMeta[q].address
    /\ \A p \in Procs :
          (lock[p] /\ pc[p] = "done" /\ ret[p].how = "returned")
          => \A k \in LockIds : lockMap[k] # Held(p, "tx")
C25_Witness ==
    \E p, q \in Procs :
        /\ lock[p] /\ pc[p] = "done" /\ ret[p].how = "returned" /\ InLedger(tx, p)
        /\ Exclusive(q) /\ txMeta[q].address = txMeta[p].address
        /\ lockMap[txMeta[q].address] = Held(q, "tx")
        /\ pc[q] = "send"

\* C26: every submitTx call for a send intent finishes, so no such call is
\* ever where it cannot finish: waiting in getNonce for the mutex that it
\* took itself as its exclusive lock, which only its own return releases.
C26_NeverWaitsForOwnLock ==
    \A p \in Procs :
        (txMeta[p].txType = "send" /\ pc[p] = "noncelock")
        => lockMap[nonceAddr[p]] # Held(p, "tx")

\* submitTx call a was made before call b: the earlier calls come first,
\* the others are numbered in the order they are made.
MadeBefore(a, b) ==
    \/ a \in Early /\ b \in Procs
    \/ a \in Early /\ b \in Early /\ a < b
    \/ a \in Procs /\ b \in Procs /\ a < b

\* C27: of two send intents in the ledger, the one whose submitTx call
\* was made first stands first, and no step moves an entry.
C27_AppendOrderIsCallOrder ==
    [][/\ \A i, j \in 1..Len(tx') :
             (/\ i < j
              /\ txMeta'[tx'[i]].txType = "send" /\ txMeta'[tx'[j]].txType = "send")
             => ~MadeBefore(tx'[j], tx'[i])
       /\ \A i \in 1..Len(tx) : tx'[i] = tx[i]]_vars

\* C28: a send intent that is assigned its nonce gets a nonce larger than
\* the nonce of every send intent of the same account that was assigned
\* one before, whatever became of that intent.
C28_NoncesIncrease ==
    [][\A p \in Procs :
         (txMeta[p].nonce = NoNonce /\ IsInteger(txMeta'[p].nonce))
         => \A q \in Calls :
               (/\ q # p
                /\ txMeta[q].txType = "send"
                /\ txMeta[q].address = txMeta[p].address
                /\ IsInteger(txMeta[q].nonce))
               => txMeta'[p].nonce > txMeta[q].nonce]_vars

\* C29: the gas price of a send intent is the price the caller set, the
\* per-call option before the handle's setting (a price of 0 counts as
\* not set), and without one the smallest integer that is at least 1.2
\* times the node's price; a caller's price below the node's is used as
\* it is, with a warning, and getTxMeta does not fail.
C29_EffectiveGasPrice ==
    opResult.op = "getTxMeta"
    => LET caller == IF opResult.options > 0 THEN opResult.options
                     ELSE IF opResult.setting > 0 THEN opResult.setting
                     ELSE NoPrice
       IN /\ opResult.how = "returned"
          /\ caller # NoPrice
               => /\ opResult.val = caller
                  /\ opResult.warned <=> caller < opResult.network
          /\ caller = NoPrice
               => /\ 10 * opResult.val >= 12 * opResult.network
                  /\ 10 * (opResult.val - 1) < 12 * opResult.network
                  /\ ~opResult.warned
C29_Witness ==
    /\ opResult.op = "getTxMeta"
    /\ opResult.options = NoPrice /\ opResult.setting = 2 /\ opResult.network = 3
    /\ opResult.val = 2 /\ opResult.warned

\* C30: a send intent that is 'submitted' carries a nonce that getNonce
\* resolved for the intent's own address.
C30_NonceOfOwnAddress ==
    \A p \in Procs :
        (txMeta[p].txType = "send" /\ txMeta[p].status = "submitted")
        => nonceAddr[p] = txMeta[p].address


\* C31: the nonce getNonce returns for an account is above the nonce of
\* every entry of that account that is confirmed in the ledger it read.
C31_AboveConfirmed ==
    resolved.address # "none"
    => \A n \in ConfirmedNonces(resolved.address) : resolved.nextNonce > n
C31_Witness ==
    /\ resolved.address # "none"
    /\ resolved.nextNetworkNonce = 0
    /\ ConfirmedNonces(resolved.address) = {2}
    /\ SubmittedNonces(resolved.address) = {3}
    /\ resolved.nextNonce = 4

\* The sum of gasUsed over the first n ledger entries in a terminal status.
RECURSIVE TerminalGasUsed(_)
TerminalGasUsed(n) ==
    IF n = 0 THEN 0
    ELSE TerminalGasUsed(n - 1)
         + (IF Entry(n).status \in {"confirmed", "failed"} THEN Entry(n).gasUsed ELSE 0)

\* No submitTx call is between its first and its last step.
Quiescent == \A p \in Calls : pc[p] \in {"idle", "done"}

TotalNeverDecreases == [][totalGasUsed' >= totalGasUsed]_vars
QuiescentTotalIsSum == Quiescent => totalGasUsed = TerminalGasUsed(Len(tx))
FailedAddsNothing ==
    [][\A p \in Calls :
         (txMeta[p].status # "failed" /\ txMeta'[p].status = "failed")
         => /\ totalGasUsed' = totalGasUsed
            /\ totalEthSpent' = totalEthSpent]_vars

\* C32: the ledger's totalGasUsed never decreases, with no submitTx call
\* under way it is the sum of gasUsed over the confirmed and the failed
\* entries, and a submission that ends failed leaves totalGasUsed and
\* totalEthSpent as they were.
C32_TotalIsSumOfEntries ==
    /\ TotalNeverDecreases
    /\ []QuiescentTotalIsSum
    /\ FailedAddsNothing

\* C33: every ledger entry has one of the four statuses, and the four
\* counts of getTxStat add up to the length of the ledger.
C33_CountsSumToLength ==
    /\ \A i \in 1..Len(tx) :
          Entry(i).status \in {"pending", "submitted", "confirmed", "failed"}
    /\ getTxStat.pending + getTxStat.submitted + getTxStat.confirmed + getTxStat.failed
          = Len(tx)
C33_Witness ==
    /\ Len(tx) = awaitLimit + NProc
    /\ getTxStat.pending = 1 /\ getTxStat.submitted = 1
    /\ getTxStat.confirmed + getTxStat.failed = awaitLimit + NProc - 2

\* C34: a finalized entry stores the gasUsed of its own dispatch result, 0
\* if the dispatch gave none, and obj.totalGasUsed of the handle is the
\* sum of gasUsed over the finalized entries.
C34_OwnGasUsed ==
    /\ \A p \in Calls :
          (InLedger(tx, p) /\ txMeta[p].status \in {"confirmed", "failed"})
          => txMeta[p].gasUsed = IF ret[p].dispatch = "resolved" THEN ret[p].result.val
                                 ELSE 0
    /\ objTotalGasUsed = TerminalGasUsed(Len(tx))
\* a send that failed is finalized after another one left its gasUsed in
\* the handle's field
C34_Witness ==
    \E p, q \in Calls :
        /\ p # q
        /\ InLedger(tx, p) /\ InLedger(tx, q)
        /\ txMeta[q].status = "confirmed" /\ txMeta[q].gasUsed = MaxGas
        /\ txMeta[p].status = "failed" /\ ret[p].dispatch = "threw"
        /\ txMeta[p].gasUsed = 0 /\ objGasUsed = 0
        /\ objTotalGasUsed = MaxGas

====
